---- MODULE Spec2Model ----
(***************************************************************************)
(* A model of mold (github.com/om3kk/mold): the template engine of         *)
(* internal/core (IdentifyPlaceholders, RenderTemplateFile,                *)
(* ReplacePlaceholdersInPath), the byte copier of internal/utils and the   *)
(* apply command of internal/cli, over a small file system.                *)
(*                                                                         *)
(* A string is a sequence of lexemes.  A lexeme is a maximal run of        *)
(* characters of one lexical class: a word (letters, digits, '_'), one of  *)
(* the delimiters of text/template, or a chunk of other text.  A path is a *)
(* sequence of names and a name is a string.                               *)
(***************************************************************************)
EXTENDS Integers, Sequences, FiniteSets, TLC

(***************************************************************************)
(* Lexemes                                                                 *)
(***************************************************************************)
LeftDelim == "{{"
RightDelim == "}}"
Keywords == {"if", "else", "end", "range", "with"}
\* identifiers that occur in the model's templates, data keys and names
Words ==
  Keywords \cup {"snake", "usnake", "camel", "lcamel", "print", "nofunc",
                 "a", "b", "p", "x", "pkg", "V", "v", "R", "r", "d", "acme"}
\* byte order of the lexemes that occur in names and in data keys
LexemeOrder ==
  <<".tmpl", "R", "V", "a", "acme", "b", "d", "p", "pkg", "r", "tmpl.json",
    "tmpl.yaml", "v", "x", "{{">>

\* the functions text/template predefines (only print is used here)
builtins == {"print"}
\* render.go: the FuncMap given to Funcs before Parse
helperFunc == {"snake", "usnake", "camel", "lcamel"}

Tok(t, v) == [typ |-> t, val |-> v]

(***************************************************************************)
(* text/template/parse: the lexer.  The result ends with an eof token or   *)
(* with an error token.                                                    *)
(***************************************************************************)
RECURSIVE textEnd(_, _)
textEnd(s, i) ==
  IF i > Len(s) \/ s[i] = LeftDelim THEN i ELSE textEnd(s, i + 1)

RECURSIVE lexText(_, _), lexInsideAction(_, _)
lexText(s, i) ==
  IF i > Len(s) THEN << Tok("eof", <<>>) >>
  ELSE IF s[i] = LeftDelim
    THEN << Tok("leftDelim", <<>>) >> \o lexInsideAction(s, i + 1)
    ELSE LET j == textEnd(s, i)
         IN  << Tok("text", SubSeq(s, i, j - 1)) >> \o lexText(s, j)

lexInsideAction(s, i) ==
  IF i > Len(s) THEN << Tok("error", <<"unclosed action">>) >>
  ELSE LET c == s[i] IN
    CASE c = RightDelim -> << Tok("rightDelim", <<>>) >> \o lexText(s, i + 1)
      [] c = " " -> << Tok("space", <<>>) >> \o lexInsideAction(s, i + 1)
      [] c = "." ->
           IF i < Len(s) /\ s[i + 1] \in Words
             THEN << Tok("field", << s[i + 1] >>) >> \o lexInsideAction(s, i + 2)
             ELSE << Tok("dot", <<>>) >> \o lexInsideAction(s, i + 1)
      [] c \in Keywords -> << Tok(c, <<>>) >> \o lexInsideAction(s, i + 1)
      [] c \in Words -> << Tok("identifier", << c >>) >> \o lexInsideAction(s, i + 1)
      [] c = "|" -> << Tok("pipe", <<>>) >> \o lexInsideAction(s, i + 1)
      [] c = "(" -> << Tok("leftParen", <<>>) >> \o lexInsideAction(s, i + 1)
      [] c = ")" -> << Tok("rightParen", <<>>) >> \o lexInsideAction(s, i + 1)
      [] OTHER -> << Tok("error", <<"unrecognized character in action">>) >>

\* a lexer that loses the first lexeme of its input
lexDropFirst(s) == lexText(s, 2)
lex(s) == lexText(s, 1)

(***************************************************************************)
(* text/template/parse: the parser.  A parse result is a record with ok;   *)
(* when ok, i is the index of the next token.                              *)
(***************************************************************************)
ParseFail == [ok |-> FALSE]

RECURSIVE skipSpace(_, _)
skipSpace(ts, i) == IF ts[i].typ = "space" THEN skipSpace(ts, i + 1) ELSE i

RECURSIVE fieldChain(_, _)
\* the fields that follow an operand directly: [i, ident]
fieldChain(ts, i) ==
  IF ts[i].typ = "field"
    THEN LET r == fieldChain(ts, i + 1)
         IN  [i |-> r.i, ident |-> ts[i].val \o r.ident]
    ELSE [i |-> i, ident |-> <<>>]

RECURSIVE term(_, _, _), operand(_, _, _), commandLoop(_, _, _, _),
          pipelineLoop(_, _, _, _, _), itemList(_, _, _, _, _),
          parseControl(_, _, _, _), action(_, _, _)

term(ts, i0, funcs) ==
  LET i == skipSpace(ts, i0)
      t == ts[i]
  IN  CASE t.typ = "identifier" ->
             IF t.val[1] \in funcs
               THEN [ok |-> TRUE, i |-> i + 1, some |-> TRUE,
                     node |-> [type |-> "Identifier", ident |-> t.val]]
               ELSE ParseFail   \* function not defined
        [] t.typ = "dot" ->
             [ok |-> TRUE, i |-> i + 1, some |-> TRUE, node |-> [type |-> "Dot"]]
        [] t.typ = "field" ->
             [ok |-> TRUE, i |-> i + 1, some |-> TRUE,
              node |-> [type |-> "Field", ident |-> t.val]]
        [] t.typ = "leftParen" ->
             LET paren(p) ==
                   IF p.ok THEN [ok |-> TRUE, i |-> p.i, some |-> TRUE, node |-> p.node]
                   ELSE ParseFail
             IN  paren(pipelineLoop(ts, i + 1, "rightParen", funcs, <<>>))
        [] OTHER -> [ok |-> TRUE, i |-> i, some |-> FALSE, node |-> [type |-> "Nil"]]

operand(ts, i, funcs) ==
  LET chained(n) ==
        IF ~n.ok \/ ~n.some THEN n
        ELSE IF ts[n.i].typ # "field" THEN n
        ELSE LET ch == fieldChain(ts, n.i) IN
          CASE n.node.type = "Field" ->
                 [n EXCEPT !.i = ch.i, !.node.ident = n.node.ident \o ch.ident]
            [] n.node.type = "Dot" -> ParseFail   \* unexpected . after term
            [] OTHER ->
                 [n EXCEPT !.i = ch.i,
                           !.node = [type |-> "Chain", node |-> n.node,
                                     field |-> ch.ident]]
  IN  chained(term(ts, i, funcs))

commandLoop(ts, i, funcs, args) ==
  LET done(j, args2) ==
        IF args2 = <<>> THEN ParseFail   \* empty command
        ELSE [ok |-> TRUE, i |-> j, node |-> [type |-> "Command", args |-> args2]]
      after(j, typ, args2) ==
        CASE typ = "space" -> commandLoop(ts, j + 1, funcs, args2)
          [] typ \in {"rightDelim", "rightParen"} -> done(j, args2)
          [] typ = "pipe" -> done(j + 1, args2)
          [] OTHER -> ParseFail   \* unexpected token in operand
      with(op) ==
        IF ~op.ok THEN ParseFail
        ELSE after(op.i, ts[op.i].typ,
                   IF op.some THEN Append(args, op.node) ELSE args)
  IN  with(operand(ts, skipSpace(ts, i), funcs))

command(ts, i, funcs) == commandLoop(ts, i, funcs, <<>>)

\* no command may be empty, and only the first may start with a constant
checkPipeline(cmds) ==
  /\ cmds # <<>>
  /\ \A k \in 2..Len(cmds) : cmds[k].args[1].type # "Dot"

pipelineLoop(ts, i0, end, funcs, cmds) ==
  LET i == skipSpace(ts, i0)
      t == ts[i]
  IN  CASE t.typ = end ->
             IF checkPipeline(cmds)
               THEN [ok |-> TRUE, i |-> i + 1,
                     node |-> [type |-> "Pipe", cmds |-> cmds]]
               ELSE ParseFail
        [] t.typ \in {"dot", "field", "identifier", "leftParen"} ->
             LET with(c) ==
                   IF c.ok
                     THEN pipelineLoop(ts, c.i, end, funcs, Append(cmds, c.node))
                     ELSE ParseFail
             IN  with(command(ts, i, funcs))
        [] OTHER -> ParseFail

pipeline(ts, i, end, funcs) == pipelineLoop(ts, i, end, funcs, <<>>)

\* expect(itemRightDelim, context)
expectRightDelim(ts, i0, type) ==
  LET i == skipSpace(ts, i0) IN
  IF ts[i].typ = "rightDelim"
    THEN [ok |-> TRUE, i |-> i + 1, node |-> [type |-> type]]
    ELSE ParseFail

\* after the left delimiter
action(ts, i0, funcs) ==
  LET i == skipSpace(ts, i0)
      t == ts[i]
  IN  CASE t.typ = "else" -> expectRightDelim(ts, i + 1, "else")
        [] t.typ = "end" -> expectRightDelim(ts, i + 1, "end")
        [] t.typ \in {"if", "range", "with"} -> parseControl(ts, i + 1, t.typ, funcs)
        [] OTHER ->
             LET with(p) ==
                   IF p.ok THEN [ok |-> TRUE, i |-> p.i,
                                 node |-> [type |-> "Action", pipe |-> p.node]]
                   ELSE ParseFail
             IN  with(pipeline(ts, i, "rightDelim", funcs))

\* The nodes up to {{end}} or {{else}} (next says which); at the top level
\* (top) up to eof, where {{end}} and {{else}} are errors.
itemList(ts, i, top, funcs, nodes) ==
  LET t == ts[i] IN
  CASE t.typ = "eof" ->
         IF top THEN [ok |-> TRUE, i |-> i, next |-> "eof", list |-> nodes]
         ELSE ParseFail   \* unexpected EOF
    [] t.typ = "text" ->
         itemList(ts, i + 1, top, funcs,
                  Append(nodes, [type |-> "Text", text |-> t.val]))
    [] t.typ = "leftDelim" ->
         LET with(n) ==
               IF ~n.ok THEN ParseFail
               ELSE IF n.node.type \in {"end", "else"}
                 THEN IF top THEN ParseFail   \* unexpected {{end}} or {{else}}
                      ELSE [ok |-> TRUE, i |-> n.i, next |-> n.node.type,
                            list |-> nodes]
                 ELSE itemList(ts, n.i, top, funcs, Append(nodes, n.node))
         IN  with(action(ts, i + 1, funcs))
    [] OTHER -> ParseFail

parseControl(ts, i, kind, funcs) ==
  LET withElse(p, l, e) ==
        IF ~e.ok \/ e.next # "end" THEN ParseFail   \* expected end
        ELSE [ok |-> TRUE, i |-> e.i,
              node |-> [type |-> kind, pipe |-> p.node, list |-> l.list,
                        hasElse |-> TRUE, elseList |-> e.list]]
      withList(p, l) ==
        IF ~l.ok THEN ParseFail
        ELSE IF l.next = "end"
          THEN [ok |-> TRUE, i |-> l.i,
                node |-> [type |-> kind, pipe |-> p.node, list |-> l.list,
                          hasElse |-> FALSE, elseList |-> <<>>]]
          ELSE withElse(p, l, itemList(ts, l.i, FALSE, funcs, <<>>))
      withPipe(p) ==
        IF ~p.ok THEN ParseFail
        ELSE withList(p, itemList(ts, p.i, FALSE, funcs, <<>>))
  IN  withPipe(pipeline(ts, i, "rightDelim", funcs))

\* Template.Parse with the functions funcs defined: [ok, root]
Parse(text, funcs) ==
  LET tree(r) ==
        IF r.ok THEN [ok |-> TRUE, root |-> r.list] ELSE [ok |-> FALSE, root |-> <<>>]
  IN  tree(itemList(lex(text), 1, TRUE, funcs, <<>>))

(***************************************************************************)
(* Data: the values LoadDataFile decodes into map[string]any.  A value is  *)
(* a string or a mapping; Missing is the invalid reflect.Value that the    *)
(* lookup of an absent key gives.                                          *)
(***************************************************************************)
NoMap == [w \in {} |-> 0]
Missing == [kind |-> "missing", str |-> <<>>, map |-> NoMap]
\* missingVal: the final argument of a command that has none piped in
NoFinal == [kind |-> "nofinal", str |-> <<>>, map |-> NoMap]
Str(s) == [kind |-> "str", str |-> s, map |-> NoMap]
Map(m) == [kind |-> "map", str |-> <<>>, map |-> m]

Ok(v) == [ok |-> TRUE, val |-> v]
ExecFail == [ok |-> FALSE, val |-> Missing]

\* the keys of a mapping in sorted order (fmt and range sort map keys)
SortedKeys(m) == SelectSeq(LexemeOrder, LAMBDA k : k \in DOMAIN m)

(***************************************************************************)
(* github.com/stoewer/go-strcase, over the characters v r V R and _        *)
(***************************************************************************)
isUpper(c) == c \in {"V", "R"}
isLower(c) == c \in {"v", "r"}
isDelimiter(c) == c \in {"_", "-", " "}
toLower(c) == CASE c = "V" -> "v" [] c = "R" -> "r" [] OTHER -> c
toUpper(c) == CASE c = "v" -> "V" [] c = "r" -> "R" [] OTHER -> c
\* the rune before the first and after the last
NoRune == ""
At(s, i) == IF i >= 1 /\ i <= Len(s) THEN s[i] ELSE NoRune

RECURSIVE TrimLeft(_), TrimRight(_)
TrimLeft(s) == IF s # <<>> /\ Head(s) = " " THEN TrimLeft(Tail(s)) ELSE s
TrimRight(s) ==
  IF s # <<>> /\ s[Len(s)] = " " THEN TrimRight(SubSeq(s, 1, Len(s) - 1)) ELSE s
TrimSpace(s) == TrimRight(TrimLeft(s))

RECURSIVE delimiterLoop(_, _, _)
delimiterLoop(s, i, upperCase) ==
  IF i > Len(s) THEN <<>>
  ELSE LET prev == At(s, i - 1)
           curr == s[i]
           next == At(s, i + 1)
           adj == IF upperCase THEN toUpper(curr) ELSE toLower(curr)
           out == IF isDelimiter(curr)
                    THEN IF i = Len(s) THEN << adj >>
                         ELSE IF ~isDelimiter(prev) THEN << "_" >> ELSE <<>>
                  ELSE IF isUpper(curr)
                    THEN IF isLower(prev) \/ (isUpper(prev) /\ isLower(next))
                           THEN << "_", adj >> ELSE << adj >>
                  ELSE << adj >>
       IN  out \o delimiterLoop(s, i + 1, upperCase)

delimiterCase(s, upperCase) == delimiterLoop(TrimSpace(s), 1, upperCase)

RECURSIVE camelLoop(_, _, _)
camelLoop(s, i, upper) ==
  IF i > Len(s) THEN <<>>
  ELSE LET prev == At(s, i - 1)
           curr == s[i]
           next == At(s, i + 1)
           out == IF isDelimiter(curr) THEN <<>>
                  ELSE IF (prev # NoRune /\ isDelimiter(prev)) \/ (upper /\ prev = NoRune)
                    THEN << toUpper(curr) >>
                  ELSE IF isLower(prev) THEN << curr >>
                  ELSE IF isUpper(prev) /\ isUpper(curr) /\ isLower(next) THEN << curr >>
                  ELSE << toLower(curr) >>
       IN  out \o camelLoop(s, i + 1, upper)

\* a conversion that capitalises the first rune whatever upper says
camelCaseUpper(s, upper) == camelLoop(TrimSpace(s), 1, TRUE)
camelCase(s, upper) == camelLoop(TrimSpace(s), 1, upper)

SnakeCase(s) == delimiterCase(s, FALSE)
UpperSnakeCase(s) == delimiterCase(s, TRUE)
UpperCamelCase(s) == camelCase(s, TRUE)
LowerCamelCase(s) == camelCase(s, FALSE)

(***************************************************************************)
(* text/template: execution                                                *)
(***************************************************************************)
RECURSIVE fmtValue(_), fmtEntries(_, _)
\* fmt.Fprint of a value; a nil interface prints as <nil>
fmtValue(v) ==
  CASE v.kind = "str" -> v.str
    [] v.kind = "map" -> << "map[" >> \o fmtEntries(v.map, SortedKeys(v.map)) \o << "]" >>
    [] OTHER -> << "<nil>" >>
fmtEntries(m, keys) ==
  IF keys = <<>> THEN <<>>
  ELSE << Head(keys), ":" >> \o fmtValue(m[Head(keys)])
       \o (IF Len(keys) > 1 THEN << " " >> ELSE <<>>) \o fmtEntries(m, Tail(keys))

\* printValue: what an action writes for the value of its pipeline
printValue(v) == IF v.kind = "missing" THEN << "<no value>" >> ELSE fmtValue(v)

\* isTrue
truth(v) ==
  CASE v.kind = "str" -> v.str # <<>>
    [] v.kind = "map" -> DOMAIN v.map # {}
    [] OTHER -> FALSE

\* evalField with the default option missingkey=default
evalField(receiver, fieldName, hasArgs) ==
  CASE receiver.kind = "missing" -> Ok(Missing)
    [] receiver.kind = "map" ->
         IF hasArgs THEN ExecFail   \* not a method but has arguments
         ELSE IF fieldName \in DOMAIN receiver.map THEN Ok(receiver.map[fieldName])
         ELSE Ok(Missing)
    [] OTHER -> ExecFail   \* can't evaluate field in type string

RECURSIVE evalFieldChain(_, _, _)
evalFieldChain(receiver, ident, hasArgs) ==
  IF Len(ident) = 1 THEN evalField(receiver, ident[1], hasArgs)
  ELSE LET with(r) ==
             IF r.ok THEN evalFieldChain(r.val, Tail(ident), hasArgs) ELSE ExecFail
       IN  with(evalField(receiver, ident[1], FALSE))

\* fmt.Sprint: a space between operands when neither is a string
RECURSIVE sprint(_)
sprint(vs) ==
  IF vs = <<>> THEN <<>>
  ELSE fmtValue(vs[1])
       \o (IF Len(vs) > 1 /\ vs[1].kind # "str" /\ vs[2].kind # "str"
             THEN << " " >> ELSE <<>>)
       \o sprint(Tail(vs))

\* the function name applied to evaluated arguments
callFunc(name, argv) ==
  CASE name = "snake" -> Str(SnakeCase(argv[1].str))
    [] name = "usnake" -> Str(UpperSnakeCase(argv[1].str))
    [] name = "camel" -> Str(UpperCamelCase(argv[1].str))
    [] name = "lcamel" -> Str(LowerCamelCase(argv[1].str))
    [] OTHER -> Str(sprint(argv))

\* validateType: a helper takes a string, print takes any value
validArg(name, v) == name = "print" \/ v.kind = "str"

RECURSIVE evalArg(_, _), evalArgs(_, _, _), evalCommand(_, _, _),
          evalPipelineFrom(_, _, _, _), evalFunction(_, _, _, _)

evalPipelineFrom(dot, cmds, k, value) ==
  IF k > Len(cmds) THEN Ok(value)
  ELSE LET with(r) ==
             IF r.ok THEN evalPipelineFrom(dot, cmds, k + 1, r.val) ELSE ExecFail
       IN  with(evalCommand(dot, cmds[k], value))

evalPipeline(dot, pipe) == evalPipelineFrom(dot, pipe.cmds, 1, NoFinal)

\* evalArg, before the check of the parameter's type
evalArg(dot, n) ==
  CASE n.type = "Dot" -> Ok(dot)
    [] n.type = "Field" -> evalFieldChain(dot, n.ident, FALSE)
    [] n.type = "Pipe" -> evalPipeline(dot, n)
    [] n.type = "Identifier" -> evalFunction(dot, n.ident[1], <<>>, NoFinal)
    [] n.type = "Chain" ->
         LET with(r) ==
               IF r.ok THEN evalFieldChain(r.val, n.field, FALSE) ELSE ExecFail
         IN  with(evalArg(dot, n.node))
    [] OTHER -> ExecFail

\* the values of the argument nodes, each checked against the parameter
evalArgs(dot, name, nodes) ==
  IF nodes = <<>> THEN [ok |-> TRUE, vals |-> <<>>]
  ELSE LET both(r, rest) ==
             IF rest.ok THEN [ok |-> TRUE, vals |-> << r.val >> \o rest.vals]
             ELSE rest
           with(r) ==
             IF ~r.ok \/ ~validArg(name, r.val) THEN [ok |-> FALSE, vals |-> <<>>]
             ELSE both(r, evalArgs(dot, name, Tail(nodes)))
       IN  with(evalArg(dot, nodes[1]))

\* evalFunction and evalCall: final is the value piped in, or NoFinal
evalFunction(dot, name, argNodes, final) ==
  LET hasFinal == final.kind # "nofinal"
      numIn == Len(argNodes) + (IF hasFinal THEN 1 ELSE 0)
  IN  IF name \in helperFunc /\ numIn # 1 THEN ExecFail   \* wrong number of args
      ELSE LET with(a) ==
                 IF ~a.ok THEN ExecFail
                 ELSE IF hasFinal /\ ~validArg(name, final) THEN ExecFail
                 ELSE Ok(callFunc(name,
                                  a.vals \o (IF hasFinal THEN << final >> ELSE <<>>)))
           IN  with(evalArgs(dot, name, argNodes))

evalCommand(dot, cmd, final) ==
  LET first == cmd.args[1]
      hasFinal == final.kind # "nofinal"
      hasArgs == Len(cmd.args) > 1 \/ hasFinal
  IN  CASE first.type = "Field" -> evalFieldChain(dot, first.ident, hasArgs)
        [] first.type = "Identifier" ->
             evalFunction(dot, first.ident[1], Tail(cmd.args), final)
        [] first.type = "Chain" ->
             LET with(r) ==
                   IF r.ok THEN evalFieldChain(r.val, first.field, hasArgs)
                   ELSE ExecFail
             IN  with(evalArg(dot, first.node))
        [] first.type = "Pipe" ->
             IF hasArgs THEN ExecFail   \* can't give argument to non-function
             ELSE evalPipeline(dot, first)
        [] first.type = "Dot" ->
             IF hasArgs THEN ExecFail ELSE Ok(dot)
        [] OTHER -> ExecFail

\* state.walk over a list: [ok, out], out being what reached the writer,
\* which on an error is the output of the nodes before the failing one
RECURSIVE execList(_, _), execNode(_, _), execRange(_, _, _)
execList(dot, list) ==
  IF list = <<>> THEN [ok |-> TRUE, out |-> <<>>]
  ELSE LET both(r, rest) == [ok |-> rest.ok, out |-> r.out \o rest.out]
           with(r) == IF ~r.ok THEN r ELSE both(r, execList(dot, Tail(list)))
       IN  with(execNode(dot, list[1]))

execRange(m, keys, list) ==
  IF keys = <<>> THEN [ok |-> TRUE, out |-> <<>>]
  ELSE LET both(r, rest) == [ok |-> rest.ok, out |-> r.out \o rest.out]
           with(r) == IF ~r.ok THEN r ELSE both(r, execRange(m, Tail(keys), list))
       IN  with(execList(m[Head(keys)], list))

execNode(dot, n) ==
  LET walkAction(v) ==
        IF v.ok THEN [ok |-> TRUE, out |-> printValue(v.val)]
        ELSE [ok |-> FALSE, out |-> <<>>]
      walkIfOrWith(v) ==
        IF ~v.ok THEN [ok |-> FALSE, out |-> <<>>]
        ELSE IF truth(v.val)
          THEN execList(IF n.type = "with" THEN v.val ELSE dot, n.list)
        ELSE execList(dot, n.elseList)
      walkRange(v) ==
        IF ~v.ok THEN [ok |-> FALSE, out |-> <<>>]
        ELSE IF v.val.kind = "str" THEN [ok |-> FALSE, out |-> <<>>]
        ELSE IF v.val.kind = "map" /\ DOMAIN v.val.map # {}
          THEN execRange(v.val.map, SortedKeys(v.val.map), n.list)
        ELSE execList(dot, n.elseList)
  IN  CASE n.type = "Text" -> [ok |-> TRUE, out |-> n.text]
        [] n.type = "Action" -> walkAction(evalPipeline(dot, n.pipe))
        [] n.type \in {"if", "with"} -> walkIfOrWith(evalPipeline(dot, n.pipe))
        [] n.type = "range" -> walkRange(evalPipeline(dot, n.pipe))
        [] OTHER -> [ok |-> FALSE, out |-> <<>>]

\* Template.Execute on the data mapping
Execute(root, data) == execList(Map(data), root)

(***************************************************************************)
(* The file system.  A tree is a function from paths (sequences of names,  *)
(* relative to the tree's root, <<>> being the root) to entries; a tree    *)
(* with an empty domain is a root that does not exist.  The template tree  *)
(* and the output tree are disjoint.                                       *)
(***************************************************************************)
PermBits == {"ur", "uw", "ux", "gr", "gw", "gx", "or", "ow", "ox"}
Perm0755 == PermBits \ {"gw", "ow"}
Perm0644 == {"ur", "uw", "gr", "or"}
Perm0750 == {"ur", "uw", "ux", "gr", "gx"}
Perm0666 == {"ur", "uw", "gr", "gw", "or", "ow"}
\* the process's file mode creation mask (022)
Umask == {"gw", "ow"}

FileMode(isDir, perm) == [dir |-> isDir, perm |-> perm]
\* FileMode.Type: the type bits alone
ModeType(m) == [dir |-> m.dir, perm |-> {}]
\* FileMode.Perm: the permission bits
ModePerm(m) == m.perm

Dir(perm) == [mode |-> FileMode(TRUE, perm), content |-> <<>>]
File(perm, content) == [mode |-> FileMode(FALSE, perm), content |-> content]
NoTree == [q \in {} |-> Dir({})]

Parent(path) == SubSeq(path, 1, Len(path) - 1)
Base(path) == path[Len(path)]
Put(fsys, path, e) == [q \in DOMAIN fsys \cup {path} |-> IF q = path THEN e ELSE fsys[q]]
Exists(fsys, path) == path \in DOMAIN fsys
IsDir(fsys, path) == Exists(fsys, path) /\ fsys[path].mode.dir
\* a path whose last name is empty names no file (a trailing separator)
ValidPath(path) == \A k \in 1..Len(path) : path[k] # <<>>

\* search permission on every directory from the root down to dir
CanSearch(fsys, dir, priv) ==
  priv \/ \A k \in 0..Len(dir) : "ux" \in fsys[SubSeq(dir, 1, k)].mode.perm
\* permission to add an entry to dir
CanWrite(fsys, dir, priv) ==
  priv \/ (CanSearch(fsys, dir, priv) /\ "uw" \in fsys[dir].mode.perm)

IOResult(ok, fsys) == [ok |-> ok, fs |-> fsys]

RECURSIVE MkdirAll(_, _, _, _)
\* os.MkdirAll(path, perm)
MkdirAll(fsys, path, perm, priv) ==
  IF Exists(fsys, path) /\ (path = <<>> \/ CanSearch(fsys, Parent(path), priv))
    THEN IOResult(fsys[path].mode.dir, fsys)
  ELSE IF path = <<>> THEN IOResult(TRUE, Put(fsys, path, Dir(perm \ Umask)))
  ELSE LET mkdir(up) ==
             IF ~up.ok THEN up
             ELSE IF ~Exists(up.fs, path) /\ CanWrite(up.fs, Parent(path), priv)
               THEN IOResult(TRUE, Put(up.fs, path, Dir(perm \ Umask)))
             ELSE IOResult(FALSE, up.fs)
       IN  mkdir(MkdirAll(fsys, Parent(path), perm, priv))

\* os.Create(name): O_RDWR|O_CREATE|O_TRUNC with mode 0666
Create(fsys, path, priv) ==
  IF \/ path = <<>> \/ ~ValidPath(path)
     \/ ~IsDir(fsys, Parent(path))
     \/ ~CanSearch(fsys, Parent(path), priv)
    THEN IOResult(FALSE, fsys)
  ELSE IF Exists(fsys, path)
    THEN IF ~fsys[path].mode.dir /\ (priv \/ "uw" \in fsys[path].mode.perm)
           THEN IOResult(TRUE, Put(fsys, path, File(fsys[path].mode.perm, <<>>)))
           ELSE IOResult(FALSE, fsys)
  ELSE IF CanWrite(fsys, Parent(path), priv)
    THEN IOResult(TRUE, Put(fsys, path, File(Perm0666 \ Umask, <<>>)))
  ELSE IOResult(FALSE, fsys)

\* what has been written to an open file
Write(fsys, path, content) == Put(fsys, path, [fsys[path] EXCEPT !.content = content])
\* a variant that leaves the mode as it is
ChmodSkipped(fsys, path, mode) == fsys
\* os.Chmod(name, mode)
Chmod(fsys, path, mode) == Put(fsys, path, [fsys[path] EXCEPT !.mode.perm = ModePerm(mode)])
\* a file that can be opened for reading
Readable(fsys, path, priv) ==
  /\ Exists(fsys, path)
  /\ ~fsys[path].mode.dir
  /\ priv \/ "ur" \in fsys[path].mode.perm

(***************************************************************************)
(* Errors: the messages of the wrapping chain, outermost first, and the    *)
(* path the wrapped messages name.                                         *)
(***************************************************************************)
NoErr == [msgs |-> <<>>, root |-> "", path |-> <<>>]
Err(msg, root, path) == [msgs |-> << msg >>, root |-> root, path |-> path]
Wrap(msg, e) == [e EXCEPT !.msgs = << msg >> \o e.msgs]
IsErr(e) == e.msgs # <<>>

\* a result of closing the handles only when the operation succeeds
OpResultLeak(e, fsys, opened, closed) ==
  [err |-> e, fs |-> fsys, opened |-> opened,
   closed |-> IF e.msgs # <<>> /\ opened > 0 THEN opened - 1 ELSE closed]
\* the result of a file operation: the error, the output tree afterwards
\* and the file handles it opened and closed
OpResult(e, fsys, opened, closed) ==
  [err |-> e, fs |-> fsys, opened |-> opened, closed |-> closed]

(***************************************************************************)
(* internal/core/render.go                                                 *)
(***************************************************************************)
\* fault names the system call that fails for a reason outside the model
RenderTemplateFile(src, templatePath, dst, destPath, data, priv, fault) ==
  LET afterExecute(r, written) ==
        IF ~r.ok \/ fault = "write"
          THEN OpResult(Err("failed to render template", "template", templatePath),
                        written, 2, 2)
        ELSE IF fault = "stat"
          THEN OpResult(Err("failed to stat source file", "template", templatePath),
                        written, 2, 2)
        ELSE IF fault = "chmod"
          THEN OpResult(Err("chmod", "output", destPath), written, 2, 2)
        ELSE OpResult(NoErr, Chmod(written, destPath, src[templatePath].mode), 2, 2)
      withOutput(destFile, r) == afterExecute(r, Write(destFile.fs, destPath, r.out))
      withDest(tmpl, destFile) ==
        IF ~destFile.ok
          THEN OpResult(Err("failed to create destination file", "output", destPath),
                        dst, 1, 1)
        ELSE withOutput(destFile, Execute(tmpl.root, data))
      withTmpl(tmpl) ==
        IF ~tmpl.ok
          THEN OpResult(Err("could not parse template", "template", templatePath),
                        dst, 1, 1)
        ELSE withDest(tmpl, IF fault = "create" THEN IOResult(FALSE, dst)
                           ELSE Create(dst, destPath, priv))
  IN  IF ~Readable(src, templatePath, priv) \/ fault = "read"
        THEN OpResult(Err("could not read template file", "template", templatePath),
                      dst, 0, 0)
      ELSE withTmpl(Parse(src[templatePath].content, helperFunc \cup builtins))

\* the path as one string: the names joined by the separator
RECURSIVE PathString(_)
PathString(path) ==
  IF path = <<>> THEN << "." >>
  ELSE IF Len(path) = 1 THEN path[1]
  ELSE path[1] \o << "/" >> \o PathString(Tail(path))

\* a variant that gives the path back unchanged when it cannot be parsed
ReplacePlaceholdersLenient(path, data) ==
  LET withOutput(r) ==
        IF ~r.ok THEN [err |-> "exec", result |-> <<>>]
        ELSE [err |-> "", result |-> r.out]
      withTmpl(t) ==
        IF ~t.ok THEN [err |-> "", result |-> path]
        ELSE withOutput(Execute(t.root, data))
  IN  withTmpl(Parse(path, helperFunc \cup builtins))
\* [err, result]: err is "" or the kind of the failure
ReplacePlaceholdersInPath(path, data) ==
  LET withOutput(r) ==
        IF ~r.ok THEN [err |-> "exec", result |-> <<>>]
        ELSE [err |-> "", result |-> r.out]
      withTmpl(t) ==
        IF ~t.ok THEN [err |-> "parse", result |-> <<>>]
        ELSE withOutput(Execute(t.root, data))
  IN  withTmpl(Parse(path, helperFunc \cup builtins))

(***************************************************************************)
(* internal/utils/fs.go                                                    *)
(***************************************************************************)
\* a copy that creates the destination before it opens the source
CopyFileCreatesFirst(srcFS, src, dstFS, dst, priv, fault) ==
  LET destFile == IF fault = "create" THEN IOResult(FALSE, dstFS)
                  ELSE Create(dstFS, dst, priv) IN
  IF ~destFile.ok
    THEN OpResult(Err("failed to create destination file", "output", dst), dstFS, 0, 0)
  ELSE IF ~Readable(srcFS, src, priv) \/ fault = "read"
    THEN OpResult(Err("failed to open source file", "template", src), destFile.fs, 1, 1)
  ELSE IF fault = "write"
    THEN OpResult(Err("failed to copy content", "template", src), destFile.fs, 2, 2)
  ELSE LET written == Write(destFile.fs, dst, srcFS[src].content) IN
  IF fault = "stat"
    THEN OpResult(Err("failed to stat source file", "template", src), written, 2, 2)
  ELSE IF fault = "chmod"
    THEN OpResult(Err("chmod", "output", dst), written, 2, 2)
  ELSE OpResult(NoErr, Chmod(written, dst, srcFS[src].mode), 2, 2)

CopyFile(srcFS, src, dstFS, dst, priv, fault) ==
  IF ~Readable(srcFS, src, priv) \/ fault = "read"
    THEN OpResult(Err("failed to open source file", "template", src), dstFS, 0, 0)
  ELSE LET destFile == IF fault = "create" THEN IOResult(FALSE, dstFS)
                       ELSE Create(dstFS, dst, priv) IN
  IF ~destFile.ok
    THEN OpResult(Err("failed to create destination file", "output", dst), dstFS, 1, 1)
  ELSE IF fault = "write"
    THEN OpResult(Err("failed to copy content", "template", src), destFile.fs, 2, 2)
  ELSE LET written == Write(destFile.fs, dst, srcFS[src].content) IN
  IF fault = "stat"
    THEN OpResult(Err("failed to stat source file", "template", src), written, 2, 2)
  ELSE IF fault = "chmod"
    THEN OpResult(Err("chmod", "output", dst), written, 2, 2)
  ELSE OpResult(NoErr, Chmod(written, dst, srcFS[src].mode), 2, 2)

(***************************************************************************)
(* internal/core/template.go                                               *)
(***************************************************************************)
\* a variant that records the last name of a chain only
LastName(ident) == << ident[Len(ident)] >>
\* strings.Join(ident, ".")
RECURSIVE JoinDots(_)
JoinDots(ident) ==
  IF Len(ident) = 1 THEN ident ELSE << ident[1], "." >> \o JoinDots(Tail(ident))

Range(seq) == {seq[k] : k \in 1..Len(seq)}
\* placeholders[fieldName] = struct{}{}: the keys in the order of insertion
Insert(placeholders, fieldName) ==
  IF fieldName \in Range(placeholders) THEN placeholders
  ELSE Append(placeholders, fieldName)

List(nodes) == [type |-> "List", nodes |-> nodes]

RECURSIVE walkArgs(_, _), walkCmds(_, _), walkNodes(_, _), walk(_, _)
walkArgs(args, placeholders) ==
  IF args = <<>> THEN placeholders
  ELSE walkArgs(Tail(args),
                IF args[1].type = "Field"
                  THEN Insert(placeholders, JoinDots(args[1].ident))
                  ELSE placeholders)
walkCmds(cmds, placeholders) ==
  IF cmds = <<>> THEN placeholders
  ELSE walkCmds(Tail(cmds), walkArgs(cmds[1].args, placeholders))
walkNodes(nodes, placeholders) ==
  IF nodes = <<>> THEN placeholders
  ELSE walkNodes(Tail(nodes), walk(nodes[1], placeholders))
walk(node, placeholders) ==
  CASE node.type = "Action" -> walkCmds(node.pipe.cmds, placeholders)
    [] node.type = "List" -> walkNodes(node.nodes, placeholders)
    [] node.type \in {"range", "if"} ->
         LET withElse(inList) ==
               IF node.hasElse THEN walk(List(node.elseList), inList) ELSE inList
         IN  withElse(walk(List(node.list), placeholders))
    [] OTHER -> placeholders

\* [err, keys]: keys in the order of insertion; the caller sees them in the
\* order of a map iteration, which is any order
IdentifyPlaceholders(src, templatePath, priv, fault) ==
  IF ~Readable(src, templatePath, priv) \/ fault = "read"
    THEN [err |-> Err("could not read template file", "template", templatePath),
          keys |-> <<>>]
  ELSE LET withTmpl(t) ==
             IF ~t.ok
               THEN [err |-> Err("could not parse template", "template", templatePath),
                     keys |-> <<>>]
             ELSE [err |-> NoErr, keys |-> walk(List(t.root), <<>>)]
       IN  withTmpl(Parse(src[templatePath].content, builtins))

\* the orders in which the keys of a map may be iterated
Orders(keys) ==
  {o \in [1..Len(keys) -> Range(keys)] : \A k \in Range(keys) : k \in Range(o)}

(***************************************************************************)
(* internal/core/data.go                                                   *)
(***************************************************************************)
\* A data file: whether it exists, its extension, the syntax its content
\* is written in and the mapping the content denotes.
DataFile(exists, ext, syntax, value) ==
  [exists |-> exists, ext |-> ext, syntax |-> syntax, value |-> value]
\* strings.ToLower(filepath.Ext(path))
ToLowerExt(ext) ==
  CASE ext = ".JSON" -> ".json" [] ext = ".YAML" -> ".yaml" [] OTHER -> ext
NoData == [w \in {} |-> Missing]

\* a loader whose switch has no default case: a file with any other
\* extension gives the empty mapping
LoadDataFileNoDefault(f) ==
  IF ~f.exists THEN [err |-> Err("failed to read data file", "data", <<>>), data |-> NoData]
  ELSE LET ext == ToLowerExt(f.ext) IN
    CASE ext = ".json" ->
           IF f.syntax = "json" THEN [err |-> NoErr, data |-> f.value]
           ELSE [err |-> Err("failed to parse JSON file", "data", <<>>), data |-> NoData]
      [] ext \in {".yaml", ".yml"} ->
           IF f.syntax \in {"json", "yaml"} THEN [err |-> NoErr, data |-> f.value]
           ELSE [err |-> Err("failed to parse YAML file", "data", <<>>), data |-> NoData]
      [] OTHER -> [err |-> NoErr, data |-> NoData]
\* [err, data]
LoadDataFile(f) ==
  IF ~f.exists THEN [err |-> Err("failed to read data file", "data", <<>>), data |-> NoData]
  ELSE LET ext == ToLowerExt(f.ext) IN
    CASE ext = ".json" ->
           IF f.syntax = "json" THEN [err |-> NoErr, data |-> f.value]
           ELSE [err |-> Err("failed to parse JSON file", "data", <<>>), data |-> NoData]
      [] ext \in {".yaml", ".yml"} ->
           IF f.syntax \in {"json", "yaml"} THEN [err |-> NoErr, data |-> f.value]
           ELSE [err |-> Err("failed to parse YAML file", "data", <<>>), data |-> NoData]
      [] OTHER -> [err |-> Err("unsupported data file format", "data", <<>>),
                   data |-> NoData]

(***************************************************************************)
(* path/filepath.WalkDir: the entries in the order of the walk, a          *)
(* directory before its entries, the entries of a directory sorted by name *)
(***************************************************************************)
Idx(x) == CHOOSE i \in 1..Len(LexemeOrder) : LexemeOrder[i] = x
RECURSIVE NameLess(_, _)
NameLess(n, m) ==
  IF n = <<>> THEN m # <<>>
  ELSE IF m = <<>> THEN FALSE
  ELSE IF n[1] = m[1] THEN NameLess(Tail(n), Tail(m))
  ELSE Idx(n[1]) < Idx(m[1])

Children(fsys, dir) ==
  {q \in DOMAIN fsys : Len(q) = Len(dir) + 1 /\ Parent(q) = dir}

RECURSIVE WalkEntries(_, _), WalkFrom(_, _)
WalkEntries(fsys, todo) ==
  IF todo = {} THEN <<>>
  ELSE LET first == CHOOSE q \in todo :
                      \A r \in todo : r = q \/ NameLess(Base(q), Base(r))
       IN  WalkFrom(fsys, first) \o WalkEntries(fsys, todo \ {first})
WalkFrom(fsys, path) ==
  << path >> \o (IF fsys[path].mode.dir
                   THEN WalkEntries(fsys, Children(fsys, path)) ELSE <<>>)

\* a walk that visits a directory after its entries
WalkDirPostOrder(fsys) ==
  LET pre == WalkFrom(fsys, <<>>)
  IN  [k \in 1..Len(pre) |-> pre[Len(pre) + 1 - k]]
\* a walk that does not call the callback for the root
WalkDirSkipsRoot(fsys) == Tail(WalkFrom(fsys, <<>>))
WalkDirOrder(fsys) == WalkFrom(fsys, <<>>)

\* a walk that ignores what the callback returned
WalkIgnoresError(e) == TRUE
\* WalkDir goes on to the next entry only while the callback returns nil
WalkContinues(e) == ~IsErr(e)

(***************************************************************************)
(* internal/cli/apply.go                                                   *)
(***************************************************************************)
TmplSuffix == ".tmpl"
\* strings.HasSuffix(d.Name(), ".tmpl")
HasSuffix(name) == name # <<>> /\ name[Len(name)] = TmplSuffix
\* TrimSuffix left out: the destination keeps the name of the source
KeepSuffix(path) == path
\* strings.TrimSuffix(destPath, ".tmpl"): the suffix is taken off once
TrimSuffix(path) ==
  IF path # <<>> /\ HasSuffix(Base(path))
    THEN Append(Parent(path), SubSeq(Base(path), 1, Len(Base(path)) - 1))
    ELSE path
\* the output directory joined with the entry's name instead of its path
DestPathByName(relPath) == IF relPath = <<>> THEN relPath ELSE << Base(relPath) >>
\* filepath.Join(outputDir, relPath), as a path of the output tree
DestPath(relPath) == relPath

(***************************************************************************)
(* Inputs                                                                  *)
(***************************************************************************)
\* names
NameA == << "a" >>
NameATmpl == << "a", ".tmpl" >>
NameATmplTmpl == << "a", ".tmpl", ".tmpl" >>
NameBTmpl == << "b", ".tmpl" >>
NameD == << "d" >>
NameP == << "{{", ".", "p", "}}" >>
NameTmplJSON == << "tmpl.json" >>
NameTmplYAML == << "tmpl.yaml" >>

\* template texts
TextP == << "{{", ".", "p", "}}" >>
TextAB == << "x", "{{", ".", "a", ".", "b", "}}" >>
TextSnakeP == << "{{", "snake", " ", ".", "p", "}}" >>
TextUnclosed == << "x", "{{", ".", "p", "}" >>

\* the data mappings
DataSet ==
  { [p |-> Str(<< "v", "R" >>), a |-> Map([b |-> Str(<< "r" >>)])],
    [a |-> Str(<< "v" >>)],
    [p |-> Str(<< "v" >>)] }

\* the entries a template tree is made of
Candidates ==
  << [path |-> << NameA >>, entry |-> File(Perm0644, TextP)],
     [path |-> << NameATmpl >>, entry |-> File(Perm0644, TextAB)],
     [path |-> << NameATmplTmpl >>, entry |-> File(Perm0644, << "y" >>)],
     [path |-> << NameBTmpl >>, entry |-> File(Perm0644, TextUnclosed)],
     [path |-> << NameD >>, entry |-> Dir(Perm0755)],
     [path |-> << NameD, NameATmpl >>, entry |-> File(Perm0755, TextSnakeP)],
     [path |-> << NameP >>, entry |-> Dir(Perm0755)],
     [path |-> << NameP, NameA >>, entry |-> File(Perm0644, << "y" >>)],
     [path |-> << NameTmplJSON >>, entry |-> File(Perm0644, << "x" >>)],
     [path |-> << NameTmplYAML >>, entry |-> File(Perm0644, << "x" >>)] >>

\* the largest number of entries below the root of a template tree
MaxEntries == 3

TreeOf(S) ==
  LET paths == {Candidates[k].path : k \in S} \cup {<<>>}
  IN  [q \in paths |->
         IF q = <<>> THEN Dir(Perm0755)
         ELSE Candidates[CHOOSE k \in S : Candidates[k].path = q].entry]

Trees ==
  {TreeOf(S) : S \in {T \in SUBSET (1..Len(Candidates)) :
       /\ Cardinality(T) <= MaxEntries
       /\ \A k \in T : Len(Candidates[k].path) > 1 =>
            \E j \in T : Candidates[j].path = Parent(Candidates[k].path)}}

\* the output directory before the run: absent, empty, holding a file or
\* a directory, or being a file itself
OutInits ==
  { NoTree,
    [q \in {<<>>} |-> Dir(Perm0755)],
    [q \in {<<>>, << NameA >>} |->
       IF q = <<>> THEN Dir(Perm0755) ELSE File({"ur", "uw"}, << "old" >>)],
    [q \in {<<>>, << NameD >>} |-> Dir(Perm0755)],
    [q \in {<<>>} |-> File(Perm0644, << "old" >>)] }

\* the data file named by --data-file (given: the flag is not empty)
DataFiles ==
  {[given |-> TRUE, file |-> DataFile(TRUE, ".json", "json", d)] : d \in DataSet}
  \cup {[given |-> TRUE, file |-> DataFile(TRUE, ".yml", "yaml", d)] : d \in DataSet}
  \cup { [given |-> FALSE, file |-> DataFile(FALSE, "", "garbage", NoData)],
         [given |-> TRUE, file |-> DataFile(FALSE, ".json", "garbage", NoData)],
         [given |-> TRUE, file |-> DataFile(TRUE, ".json", "garbage", NoData)],
         [given |-> TRUE, file |-> DataFile(TRUE, ".txt", "json", NoData)] }

\* The segments a template text of the core's calls is made of
Segments ==
  << << "x" >>,
     << "{{", ".", "a", "}}" >>,
     << "{{", ".", "a", ".", "b", "}}" >>,
     << "{{", ".", "p", "}}" >>,
     << "{{", "snake", " ", ".", "p", "}}" >>,
     << "{{", "print", " ", ".", "b", "}}" >>,
     << "{{", ".", "p", "}" >>,
     << "{{", "if", " ", ".", "p", "}}" >>,
     << "{{", "end", "}}" >>,
     << ".", "p", "}}" >> >>

\* the largest number of segments of a template text
MaxSegments == 3

SegmentSeqs == UNION {[1..n -> 1..Len(Segments)] : n \in 0..MaxSegments}

RECURSIVE Flatten(_)
Flatten(segs) ==
  IF segs = <<>> THEN <<>> ELSE Segments[Head(segs)] \o Flatten(Tail(segs))

\* the file the core's calls read, and the file they write
SrcPath == << NameATmpl >>
DstPath == << NameA >>

(***************************************************************************)
(* State                                                                   *)
(***************************************************************************)
VARIABLES
  tmpl,      \* the template tree
  out,       \* the output tree
  dataFile,  \* the --data-file flag and the file it names
  priv,      \* the process may override file permissions (it runs as root)
  segs,      \* the segments of the text given to a call of the core
  pc,        \* "start", "walk" (inside filepath.WalkDir) or "done"
  data,      \* the data context
  queue,     \* the entries of the walk not yet visited
  visited,   \* the entries the callback was called for, in order
  walkErr,   \* what the callback returned last
  created,   \* the paths of the output tree this run has created
  handles,   \* the file handles open
  err,       \* what the command returned
  ret,       \* what a call of the core returned
  firstRun   \* what the first of two runs of the command left

vars == << tmpl, out, dataFile, priv, segs, pc, data, queue, visited, walkErr,
           created, handles, err, ret, firstRun >>

NoRet == [op |-> "", err |-> NoErr, keys |-> <<>>, result |-> <<>>]
\* no run before this one
NoFirst == [set |-> FALSE, out |-> NoTree, err |-> NoErr]

InitRun ==
  /\ pc = "start"
  /\ data = NoData
  /\ queue = <<>>
  /\ visited = <<>>
  /\ walkErr = NoErr
  /\ created = {}
  /\ handles = 0
  /\ err = NoErr
  /\ ret = NoRet
  /\ firstRun = NoFirst

\* the apply command on a template tree
Init ==
  /\ tmpl \in Trees \cup {NoTree}
  /\ out \in OutInits
  /\ dataFile \in DataFiles
  /\ priv \in BOOLEAN
  /\ segs = <<>>
  /\ InitRun

\* an output directory that holds a file at the destination of the call
OutWithDst ==
  [q \in {<<>>, DstPath} |->
     IF q = <<>> THEN Dir(Perm0755) ELSE File({"ur", "uw"}, << "old" >>)]

\* a call of the core on one file
InitCore ==
  /\ segs \in SegmentSeqs
  /\ tmpl = [q \in {<<>>, SrcPath} |->
               IF q = <<>> THEN Dir(Perm0755) ELSE File(Perm0755, Flatten(segs))]
  /\ out = [q \in {<<>>} |-> Dir(Perm0755)]
  /\ dataFile \in {[given |-> TRUE, file |-> DataFile(TRUE, ".json", "json", d)] :
                     d \in DataSet}
  /\ priv = FALSE
  /\ InitRun

\* a call of the core on one file, into an empty output directory or onto
\* an existing file
InitCoreOver ==
  /\ segs \in SegmentSeqs
  /\ tmpl = [q \in {<<>>, SrcPath} |->
               IF q = <<>> THEN Dir(Perm0755) ELSE File(Perm0755, Flatten(segs))]
  /\ out \in {[q \in {<<>>} |-> Dir(Perm0755)], OutWithDst}
  /\ dataFile \in {[given |-> TRUE, file |-> DataFile(TRUE, ".json", "json", d)] :
                     d \in DataSet}
  /\ priv = FALSE
  /\ InitRun

(***************************************************************************)
(* apply.go: applyCmd.RunE up to the walk                                  *)
(***************************************************************************)
ExampleYAML == << << "template.yaml" >> >>
ExampleJSON == << << "template.json" >> >>

RequiredFlagError(fsys) ==
  LET hint == IF Exists(fsys, ExampleYAML) THEN << "Hint: Found a", "template.yaml" >>
              ELSE IF Exists(fsys, ExampleJSON) THEN << "Hint: Found a", "template.json" >>
              ELSE <<>>
  IN  [msgs |-> << "the --data-file flag is required for rendering templates." >> \o hint,
       root |-> "", path |-> <<>>]

\* a walk whose order is not the same from one run to the next
WalkDirByRun ==
  IF firstRun.set THEN WalkDirPostOrder(tmpl) ELSE WalkDirOrder(tmpl)
\* filepath.WalkDir(templatePath, ...): the entries the callback is called for
WalkDir == WalkDirOrder(tmpl)

Finish(e) ==
  /\ pc' = "done"
  /\ err' = e
  /\ UNCHANGED << tmpl, out, dataFile, priv, segs, data, queue, visited, walkErr,
                  created, handles, ret, firstRun >>

\* a variant that validates the template path before the flag
RunEPathFirst(fault) ==
  /\ pc = "start"
  /\ IF tmpl = NoTree THEN Finish(Err("template path not found", "template", <<>>))
     ELSE IF ~dataFile.given THEN Finish(RequiredFlagError(tmpl))
     ELSE LET walkFrom(loaded, mk) ==
                IF ~mk.ok
                  THEN Finish(Wrap("failed to create output directory",
                                   Err("mkdir", "output", <<>>)))
                  ELSE /\ pc' = "walk"
                       /\ data' = loaded.data
                       /\ out' = mk.fs
                       /\ created' = DOMAIN mk.fs \ DOMAIN out
                       /\ queue' = WalkDir
                       /\ UNCHANGED << tmpl, dataFile, priv, segs, visited, walkErr,
                                       handles, err, ret, firstRun >>
              withData(loaded) ==
                IF IsErr(loaded.err) THEN Finish(loaded.err)
                ELSE walkFrom(loaded, IF fault = "mkdir" THEN IOResult(FALSE, out)
                                      ELSE MkdirAll(out, <<>>, Perm0750, priv))
          IN  withData(LoadDataFile(dataFile.file))

\* a variant that creates the output directory before it loads the data
RunEMkdirFirst(fault) ==
  /\ pc = "start"
  /\ IF ~dataFile.given THEN Finish(RequiredFlagError(tmpl))
     ELSE IF tmpl = NoTree THEN Finish(Err("template path not found", "template", <<>>))
     ELSE LET walkFrom(loaded, mk) ==
                IF ~mk.ok
                  THEN Finish(Wrap("failed to create output directory",
                                   Err("mkdir", "output", <<>>)))
                ELSE IF IsErr(loaded.err)
                  THEN /\ pc' = "done"
                       /\ err' = loaded.err
                       /\ out' = mk.fs
                       /\ created' = DOMAIN mk.fs \ DOMAIN out
                       /\ UNCHANGED << tmpl, dataFile, priv, segs, data, queue, visited,
                                       walkErr, handles, ret, firstRun >>
                  ELSE /\ pc' = "walk"
                       /\ data' = loaded.data
                       /\ out' = mk.fs
                       /\ created' = DOMAIN mk.fs \ DOMAIN out
                       /\ queue' = WalkDir
                       /\ UNCHANGED << tmpl, dataFile, priv, segs, visited, walkErr,
                                       handles, err, ret, firstRun >>
          IN  walkFrom(LoadDataFile(dataFile.file),
                       IF fault = "mkdir" THEN IOResult(FALSE, out)
                       ELSE MkdirAll(out, <<>>, Perm0750, priv))

RunE(fault) ==
  /\ pc = "start"
  /\ IF ~dataFile.given THEN Finish(RequiredFlagError(tmpl))
     ELSE IF tmpl = NoTree THEN Finish(Err("template path not found", "template", <<>>))
     ELSE LET walkFrom(loaded, mk) ==
                IF ~mk.ok
                  THEN Finish(Wrap("failed to create output directory",
                                   Err("mkdir", "output", <<>>)))
                  ELSE /\ pc' = "walk"
                       /\ data' = loaded.data
                       /\ out' = mk.fs
                       /\ created' = DOMAIN mk.fs \ DOMAIN out
                       /\ queue' = WalkDir
                       /\ UNCHANGED << tmpl, dataFile, priv, segs, visited, walkErr,
                                       handles, err, ret, firstRun >>
              withData(loaded) ==
                IF IsErr(loaded.err) THEN Finish(loaded.err)
                ELSE walkFrom(loaded, IF fault = "mkdir" THEN IOResult(FALSE, out)
                                      ELSE MkdirAll(out, <<>>, Perm0750, priv))
          IN  withData(LoadDataFile(dataFile.file))

(***************************************************************************)
(* apply.go: the callback given to filepath.WalkDir, by the kind of entry  *)
(***************************************************************************)
InWalk ==
  /\ pc = "walk"
  /\ queue # <<>>
  /\ WalkContinues(walkErr)

Visited(relPath, r) ==
  /\ out' = r.fs
  /\ walkErr' = r.err
  /\ created' = created \cup (DOMAIN r.fs \ DOMAIN out)
  /\ handles' = handles + r.opened - r.closed
  /\ visited' = Append(visited, relPath)
  /\ queue' = Tail(queue)
  /\ UNCHANGED << tmpl, dataFile, priv, segs, pc, data, err, ret, firstRun >>

VisitDir(fault) ==
  /\ InWalk
  /\ LET relPath == Head(queue)
         d == tmpl[relPath]
         destPath == DestPath(relPath)
         made(mk) ==
           OpResult(IF ~mk.ok THEN Err("mkdir", "output", destPath)
                    ELSE IF fault = "readdir" THEN Err("readdir", "template", relPath)
                    ELSE NoErr,
                    mk.fs, 0, 0)
     IN  /\ d.mode.dir
         /\ Visited(relPath,
                    made(IF fault = "mkdir" THEN IOResult(FALSE, out)
                         ELSE MkdirAll(out, destPath, ModePerm(ModeType(d.mode)),
                                       priv)))

VisitTemplate(fault) ==
  /\ InWalk
  /\ LET relPath == Head(queue)
         d == tmpl[relPath]
         finalDestPath == TrimSuffix(DestPath(relPath))
     IN  /\ ~d.mode.dir
         /\ HasSuffix(Base(relPath))
         /\ Visited(relPath,
                    RenderTemplateFile(tmpl, relPath, out, finalDestPath, data, priv,
                                       fault))

VisitPlain(fault) ==
  /\ InWalk
  /\ LET relPath == Head(queue)
         d == tmpl[relPath]
     IN  /\ ~d.mode.dir
         /\ ~HasSuffix(Base(relPath))
         /\ Visited(relPath, CopyFile(tmpl, relPath, out, DestPath(relPath), priv, fault))

\* a return that removes what the run created when the walk failed
ReturnRollsBack ==
  /\ pc = "walk"
  /\ queue = <<>> \/ ~WalkContinues(walkErr)
  /\ pc' = "done"
  /\ err' = IF IsErr(walkErr) THEN Wrap("error during template processing", walkErr)
            ELSE NoErr
  /\ out' = IF IsErr(walkErr) THEN [q \in DOMAIN out \ created |-> out[q]] ELSE out
  /\ UNCHANGED << tmpl, dataFile, priv, segs, data, queue, visited, walkErr,
                  created, handles, ret, firstRun >>
\* apply.go: after the walk
Return ==
  /\ pc = "walk"
  /\ queue = <<>> \/ ~WalkContinues(walkErr)
  /\ pc' = "done"
  /\ err' = IF IsErr(walkErr) THEN Wrap("error during template processing", walkErr)
            ELSE NoErr
  /\ UNCHANGED << tmpl, out, dataFile, priv, segs, data, queue, visited, walkErr,
                  created, handles, ret, firstRun >>

FileFaults == {"none", "read", "create", "write", "stat", "chmod"}

Next ==
  \/ \E fault \in {"none", "mkdir"} : RunE(fault)
  \/ \E fault \in {"none", "mkdir", "readdir"} : VisitDir(fault)
  \/ \E fault \in FileFaults : VisitTemplate(fault)
  \/ \E fault \in FileFaults : VisitPlain(fault)
  \/ Return

Spec == Init /\ [][Next]_vars

(***************************************************************************)
(* Calls of the core's functions                                           *)
(***************************************************************************)
Called(op, r) ==
  /\ pc = "start"
  /\ pc' = "done"
  /\ ret' = [op |-> op, err |-> r.err, keys |-> r.keys, result |-> r.result]
  /\ out' = r.fs
  /\ UNCHANGED << tmpl, dataFile, priv, segs, data, queue, visited, walkErr,
                  created, handles, err, firstRun >>

\* what a call returned, with the output tree it left
Returned(e, keys, result, fsys) ==
  [err |-> e, keys |-> keys, result |-> result, fs |-> fsys]

CallIdentifyPlaceholders(fault) ==
  LET anyOrder(r) ==
        \E keys \in Orders(r.keys) : Called("identify", Returned(r.err, keys, <<>>, out))
  IN  anyOrder(IdentifyPlaceholders(tmpl, SrcPath, priv, fault))

CallRenderTemplateFile(fault) ==
  LET returned(r) == Returned(r.err, <<>>, <<>>, r.fs)
  IN  Called("render",
             returned(RenderTemplateFile(tmpl, SrcPath, out, DstPath,
                                         dataFile.file.value, priv, fault)))

CallReplacePlaceholdersInPath ==
  LET returned(r) ==
        Returned(IF r.err = "" THEN NoErr ELSE Err(r.err, "", <<>>), <<>>, r.result, out)
  IN  Called("path",
             returned(ReplacePlaceholdersInPath(Flatten(segs), dataFile.file.value)))

CallCopyFile(fault) ==
  LET returned(r) == Returned(r.err, <<>>, <<>>, r.fs)
  IN  Called("copy", returned(CopyFile(tmpl, SrcPath, out, DstPath, priv, fault)))

NextCore ==
  \/ \E fault \in {"none", "read"} : CallIdentifyPlaceholders(fault)
  \/ \E fault \in FileFaults : CallRenderTemplateFile(fault)
  \/ CallReplacePlaceholdersInPath
  \/ \E fault \in FileFaults : CallCopyFile(fault)

SpecCore == InitCore /\ [][NextCore]_vars

SpecCoreOver == InitCoreOver /\ [][NextCore]_vars

(***************************************************************************)
(* The command run twice with the same template tree and data, each time   *)
(* onto the same clean output directory, no system call failing            *)
(***************************************************************************)
\* the output directory as it was before the run: absent or empty
CleanAgain ==
  IF out = NoTree \/ <<>> \in created THEN NoTree
  ELSE [q \in {<<>>} |-> out[<<>>]]

ApplyAgain ==
  /\ pc = "done"
  /\ ~firstRun.set
  /\ firstRun' = [set |-> TRUE, out |-> out, err |-> err]
  /\ out' = CleanAgain
  /\ pc' = "start"
  /\ data' = NoData
  /\ queue' = <<>>
  /\ visited' = <<>>
  /\ walkErr' = NoErr
  /\ created' = {}
  /\ handles' = 0
  /\ err' = NoErr
  /\ UNCHANGED << tmpl, dataFile, priv, segs, ret >>

InitTwice ==
  /\ Init
  /\ out \in {NoTree, [q \in {<<>>} |-> Dir(Perm0755)]}

NextTwice ==
  \/ RunE("none")
  \/ VisitDir("none")
  \/ VisitTemplate("none")
  \/ VisitPlain("none")
  \/ Return
  \/ ApplyAgain

SpecTwice == InitTwice /\ [][NextTwice]_vars

(***************************************************************************)
(* The four helpers called in a content template and in a path template,   *)
(* as in TestRenderTemplateFile and TestReplacePlaceholdersInPath           *)
(***************************************************************************)
\* "{{snake .p}}/{{usnake .p}}/{{camel .p}}/{{lcamel .p}}"
HelperText ==
  << "{{", "snake", " ", ".", "p", "}}", "/",
     "{{", "usnake", " ", ".", "p", "}}", "/",
     "{{", "camel", " ", ".", "p", "}}", "/",
     "{{", "lcamel", " ", ".", "p", "}}" >>

\* the runes of the strings given to the helpers
HelperRunes == {"v", "r", "V", "R", "_"}
\* the largest length of such a string
MaxRunes == 3
\* someVariableName and some_variable_name, a rune or two for each word
CamelExample == << "v", "V", "r", "R", "v" >>
SnakeExample == << "v", "_", "v", "r", "_", "r", "v" >>
HelperInputs ==
  UNION {[1..n -> HelperRunes] : n \in 0..MaxRunes} \cup {CamelExample, SnakeExample}

InitHelpers ==
  /\ segs = <<>>
  /\ tmpl = [q \in {<<>>, SrcPath} |->
               IF q = <<>> THEN Dir(Perm0755) ELSE File(Perm0755, HelperText)]
  /\ out = [q \in {<<>>} |-> Dir(Perm0755)]
  /\ dataFile \in {[given |-> TRUE,
                     file |-> DataFile(TRUE, ".json", "json", [p |-> Str(s)])] :
                       s \in HelperInputs}
  /\ priv = FALSE
  /\ InitRun

CallPathWithHelpers ==
  LET returned(r) ==
        Returned(IF r.err = "" THEN NoErr ELSE Err(r.err, "", <<>>), <<>>, r.result, out)
  IN  Called("path",
             returned(ReplacePlaceholdersInPath(HelperText, dataFile.file.value)))

NextHelpers ==
  \/ \E fault \in FileFaults : CallRenderTemplateFile(fault)
  \/ CallPathWithHelpers

SpecHelpers == InitHelpers /\ [][NextHelpers]_vars

(***************************************************************************)
(* LoadDataFile called on one path, as in TestLoadDataFile                 *)
(***************************************************************************)
\* the extensions of the paths; "" is a path without an extension
Extensions == {".json", ".yaml", ".yml", ".JSON", ".YAML", ".txt", ""}
\* the files at the paths: absent, or holding a mapping written as JSON or
\* as YAML, or holding text that is neither
LoadInputs ==
  {DataFile(FALSE, ext, "garbage", NoData) : ext \in Extensions}
  \cup {DataFile(TRUE, ext, "garbage", NoData) : ext \in Extensions}
  \cup {DataFile(TRUE, ext, syntax, d) :
          ext \in Extensions, syntax \in {"json", "yaml"}, d \in DataSet}

InitLoad ==
  /\ segs = <<>>
  /\ tmpl = NoTree
  /\ out = NoTree
  /\ dataFile \in {[given |-> TRUE, file |-> f] : f \in LoadInputs}
  /\ priv = FALSE
  /\ InitRun

CallLoadDataFile ==
  LET returned(r) ==
        /\ ret' = [op |-> "load", err |-> r.err, keys |-> <<>>, result |-> <<>>]
        /\ data' = r.data
  IN  /\ pc = "start"
      /\ pc' = "done"
      /\ returned(LoadDataFile(dataFile.file))
      /\ UNCHANGED << tmpl, out, dataFile, priv, segs, queue, visited, walkErr,
                      created, handles, err, firstRun >>

NextLoad == CallLoadDataFile

SpecLoad == InitLoad /\ [][NextLoad]_vars

(***************************************************************************)
(* Properties of the apply command (checked under Spec)                    *)
(***************************************************************************)
SourceFiles == {q \in DOMAIN tmpl : ~tmpl[q].mode.dir}
OutFiles == {q \in DOMAIN out : ~out[q].mode.dir}
\* the name ends with the marker
Marked(q) == q # <<>> /\ Base(q) # <<>> /\ Base(q)[Len(Base(q))] = ".tmpl"
\* the path with the trailing marker taken off its name
Unmarked(q) == Append(Parent(q), SubSeq(Base(q), 1, Len(Base(q)) - 1))
\* where a source file is expected in the output tree
OutputOf(q) == IF Marked(q) THEN Unmarked(q) ELSE q
\* the rendering of a template file of the tree on the run's data
Rendered(q) ==
  Execute(Parse(tmpl[q].content, helperFunc \cup builtins).root, data).out
\* the run is over and returned no error
SuccessfulApply == pc = "done" /\ ~IsErr(err) /\ tmpl # NoTree
\* the output directory held nothing when the run began
EmptyAtStart == DOMAIN out \ created \subseteq {<<>>}
\* no name of the template tree holds a placeholder
NoPathPlaceholders ==
  \A q \in DOMAIN tmpl : \A k \in 1..Len(q) : LeftDelim \notin Range(q[k])

RenderedPath(q) == ReplacePlaceholdersInPath(PathString(q), data)

\* C2 (as stated): the destination of every entry is the output root joined
\* with the path-placeholder rendering of its relative path: after a
\* successful apply, every template directory whose path renders without
\* error exists in the output as a directory under the rendered path.
C2_AsStated ==
  SuccessfulApply =>
    \A q \in DOMAIN tmpl :
      (q # <<>> /\ tmpl[q].mode.dir /\ RenderedPath(q).err = "") =>
        \E p \in DOMAIN out :
          out[p].mode.dir /\ PathString(p) = RenderedPath(q).result

\* a template directory named {{.p}} was created in the output under its
\* literal name by a successful run whose data gives p a value
C2_Witness ==
  /\ SuccessfulApply
  /\ "p" \in DOMAIN data
  /\ << NameP >> \in DOMAIN tmpl
  /\ << NameP >> \in created

\* C5: apply is fail-fast: once the processing of an entry has returned an
\* error no later entry is visited, the output tree is not changed any
\* more, and the command returns that error wrapped.
C5_FailFast ==
  /\ [](pc = "done" /\ IsErr(walkErr) =>
          err = Wrap("error during template processing", walkErr))
  /\ [][IsErr(walkErr) =>
          /\ out' = out
          /\ visited' = visited
          /\ walkErr' = walkErr
          /\ pc' = "done"]_vars

\* the command returned the error of an entry while entries were left
C5_Witness ==
  /\ pc = "done"
  /\ IsErr(walkErr)
  /\ queue # <<>>
  /\ visited # <<>>
  /\ err = Wrap("error during template processing", walkErr)

\* C6: parent before child: whenever the run has created an output file,
\* its parent directory exists in the output tree and the walk has handled
\* the parent's entry before.
C6_ParentBeforeChild ==
  \A p \in created :
    (p # <<>> /\ ~out[p].mode.dir) =>
      /\ IsDir(out, Parent(p))
      /\ Parent(p) \in Range(visited)

\* a file was created below a directory that the same run created
C6_Witness ==
  \E p \in created :
    /\ Len(p) = 2
    /\ ~out[p].mode.dir
    /\ Parent(p) \in created
    /\ C6_ParentBeforeChild

\* C7 (as stated): every directory that apply creates for a directory of
\* the template tree has the permission bits of that template directory.
C7_AsStated ==
  \A p \in created :
    (p # <<>> /\ out[p].mode.dir /\ p \in DOMAIN tmpl) =>
      out[p].mode.perm = tmpl[p].mode.perm

(***************************************************************************)
(* Properties of the core's functions (checked under SpecCore)             *)
(***************************************************************************)
\* the data context of the call
CallData == dataFile.file.value
\* the segments of the text, as texts
SegmentTexts == [k \in 1..Len(segs) |-> Segments[segs[k]]]
HasSegment(text) == \E k \in 1..Len(segs) : SegmentTexts[k] = text
\* the segments are texts and actions on one field only
FieldActionsOnly ==
  \A k \in 1..Len(segs) :
    SegmentTexts[k] \in {<< "x" >>, << "{{", ".", "a", "}}" >>,
                         << "{{", ".", "a", ".", "b", "}}" >>,
                         << "{{", ".", "p", "}}" >>}
\* some action names a top-level key the data lacks
AbsentKey ==
  \/ HasSegment(<< "{{", ".", "a", "}}" >>) /\ "a" \notin DOMAIN CallData
  \/ HasSegment(<< "{{", ".", "p", "}}" >>) /\ "p" \notin DOMAIN CallData
\* some action indexes a string as if it were a mapping
StringIndexed ==
  /\ HasSegment(<< "{{", ".", "a", ".", "b", "}}" >>)
  /\ "a" \in DOMAIN CallData
  /\ CallData["a"].kind = "str"

\* C3 (as stated): rendering a template with an action on a field that
\* cannot be resolved against the data (the top-level key is absent, or a
\* string is indexed as a mapping) fails with a render error.
C3_AsStated ==
  (ret.op = "render" /\ FieldActionsOnly /\ (AbsentKey \/ StringIndexed)) =>
    IsErr(ret.err)

\* the text parses and its execution on the data fails
ExecutionFails ==
  LET t == Parse(Flatten(segs), helperFunc \cup builtins)
  IN  t.ok /\ ~Execute(t.root, CallData).ok

\* C4 (as stated): when rendering a template file fails at execution time
\* no destination file exists afterwards, neither empty nor partial.
C4_AsStated ==
  (ret.op = "render" /\ ExecutionFails
     /\ ret.err.msgs = << "failed to render template" >>) =>
    ~Exists(out, DstPath)

\* the depth of {{if}} after the segments from k on, or -1 when an {{end}}
\* has no {{if}} before it
RECURSIVE IfDepth(_, _)
IfDepth(k, depth) ==
  IF depth < 0 \/ k > Len(segs) THEN depth
  ELSE IfDepth(k + 1,
               CASE SegmentTexts[k] = << "{{", "if", " ", ".", "p", "}}" >> -> depth + 1
                 [] SegmentTexts[k] = << "{{", "end", "}}" >> -> depth - 1
                 [] OTHER -> depth)
\* the text is no template: an action is not closed, or {{if}} and {{end}}
\* do not match
Malformed ==
  \/ HasSegment(<< "{{", ".", "p", "}" >>)
  \/ IfDepth(1, 0) # 0

\* C8: a syntactically invalid template fails with the parse error whatever
\* the data: RenderTemplateFile returns the parse failure (or, before it,
\* the failure to read the file) and leaves no destination file, and
\* ReplacePlaceholdersInPath returns the parse failure; neither returns a
\* render error or a result.
C8_ParseErrorFirst ==
  Malformed =>
    /\ ret.op = "render" =>
         /\ ret.err.msgs \in {<< "could not parse template" >>,
                              << "could not read template file" >>}
         /\ ~Exists(out, DstPath)
    /\ ret.op = "path" =>
         /\ ret.err = Err("parse", "", <<>>)
         /\ ret.result = <<>>

\* ReplacePlaceholdersInPath returned the parse failure for an invalid text
\* one of whose actions the data cannot resolve
C8_Witness ==
  /\ Malformed
  /\ ret.op = "path"
  /\ ret.err = Err("parse", "", <<>>)
  /\ HasSegment(<< "{{", ".", "a", ".", "b", "}}" >>)
  /\ "a" \in DOMAIN CallData /\ CallData["a"].kind = "str"

\* C9 (as stated): for a template whose only action applies a helper to the
\* field F, IdentifyPlaceholders returns the set {F}.
C9_AsStated ==
  (/\ ret.op = "identify"
   /\ Len(segs) = 1
   /\ SegmentTexts[1] = << "{{", "snake", " ", ".", "p", "}}" >>
   /\ ret.err.msgs # << "could not read template file" >>) =>
    /\ ~IsErr(ret.err)
    /\ Range(ret.keys) = {<< "p" >>}

\* the names of the fields in the actions of the text, whole chains
ActionFields ==
  {f \in {<< "a" >>, << "a", ".", "b" >>, << "p" >>, << "b" >>} :
     \/ f = << "a" >> /\ HasSegment(<< "{{", ".", "a", "}}" >>)
     \/ f = << "a", ".", "b" >> /\ HasSegment(<< "{{", ".", "a", ".", "b", "}}" >>)
     \/ f = << "p" >> /\ HasSegment(<< "{{", ".", "p", "}}" >>)
     \/ f = << "b" >> /\ HasSegment(<< "{{", "print", " ", ".", "b", "}}" >>)}
\* the names of the fields in the conditions of the text
ConditionFields ==
  IF HasSegment(<< "{{", "if", " ", ".", "p", "}}" >>) THEN {<< "p" >>} ELSE {}

\* C10: IdentifyPlaceholders returns a duplicate-free collection of whole
\* dot-joined field names: every field of an action is in it once, under
\* the name of its whole chain, and nothing is in it that is not the whole
\* chain of a field of the text.
C10_WholeNamesOnce ==
  (ret.op = "identify" /\ ~IsErr(ret.err)) =>
    /\ \A i, j \in 1..Len(ret.keys) : ret.keys[i] = ret.keys[j] => i = j
    /\ ActionFields \subseteq Range(ret.keys)
    /\ Range(ret.keys) \subseteq ActionFields \cup ConditionFields

\* a text with .a, .a.b and .a again gave exactly a and a.b
C10_Witness ==
  /\ ret.op = "identify"
  /\ ~IsErr(ret.err)
  /\ SegmentTexts = << << "{{", ".", "a", "}}" >>,
                       << "{{", ".", "a", ".", "b", "}}" >>,
                       << "{{", ".", "a", "}}" >> >>
  /\ Range(ret.keys) = {<< "a" >>, << "a", ".", "b" >>}
  /\ Len(ret.keys) = 2

\* RenderTemplateFile can parse the text
RendererParses == Parse(Flatten(segs), helperFunc \cup builtins).ok

\* C11 (as stated): IdentifyPlaceholders accepts exactly the template texts
\* the renderer accepts: it succeeds on every text RenderTemplateFile can
\* parse and fails with the parse error exactly on the texts on which
\* RenderTemplateFile fails to parse.
C11_AsStated ==
  (ret.op = "identify" /\ ret.err.msgs # << "could not read template file" >>) =>
    /\ RendererParses => ~IsErr(ret.err)
    /\ ~RendererParses => ret.err.msgs = << "could not parse template" >>

\* the text has no left delimiter: all of it is literal text
Literal == \A k \in 1..Len(Flatten(segs)) : Flatten(segs)[k] # LeftDelim

\* C20: rendering is the identity on literal text: for a template text or
\* a path string without an action and for every data context,
\* ReplacePlaceholdersInPath returns the input with no error and a render
\* that no system call fails writes the input to the destination; the
\* empty string gives the empty string.
C20_LiteralIdentity ==
  [][Literal =>
       /\ CallReplacePlaceholdersInPath =>
            ret'.err = NoErr /\ ret'.result = Flatten(segs)
       /\ CallRenderTemplateFile("none") =>
            /\ ret'.err = NoErr
            /\ DstPath \in DOMAIN out'
            /\ out'[DstPath].content = Flatten(segs)]_vars

\* a text of two literal segments, one of them with a dot and a right
\* delimiter, was rendered to the destination unchanged
C20_Witness ==
  /\ pc = "done"
  /\ ret.op = "render"
  /\ ret.err = NoErr
  /\ SegmentTexts = << << "x" >>, << ".", "p", "}}" >> >>
  /\ out[DstPath].content = << "x", ".", "p", "}}" >>

(***************************************************************************)
(* Further properties of the apply command (checked under Spec)            *)
(***************************************************************************)
\* this step is the callback's successful return for a file entry
FileDone ==
  /\ pc = "walk"
  /\ visited' # visited
  /\ ~tmpl[Head(queue)].mode.dir
  /\ ~IsErr(walkErr')

\* C12: after a successful render or copy of a file the permission bits of
\* the destination file equal those of the source file.
C12_PermissionsCopied ==
  [][FileDone =>
       /\ OutputOf(Head(queue)) \in DOMAIN out'
       /\ out'[OutputOf(Head(queue))].mode.perm = tmpl[Head(queue)].mode.perm]_vars

\* a copy gave an existing file of other permissions those of its source,
\* and a render gave a new file the permissions of its template
C12_Witness ==
  /\ SuccessfulApply
  /\ << NameA >> \in SourceFiles /\ << NameA >> \in OutFiles \ created
  /\ out[<< NameA >>].mode.perm = Perm0644
  /\ << NameD, NameATmpl >> \in SourceFiles /\ << NameD, NameA >> \in created
  /\ out[<< NameD, NameA >>].mode.perm = Perm0755

\* the entry the callback was called for last
LastVisited == visited[Len(visited)]

\* C13 (as stated): any failure while an entry is processed is returned by
\* apply as an error that carries the relative path, within the template
\* root, of the entry that was being processed.
C13_AsStated ==
  (pc = "done" /\ IsErr(walkErr)) =>
    /\ IsErr(err)
    /\ err.path = LastVisited

\* this step is the failing return of the callback, or the return of the
\* command after it
Aborting == pc = "walk" /\ IsErr(walkErr')
\* the destination of the entry this step processes (none when it is the
\* return of the command)
Processing ==
  IF visited' # visited /\ ~tmpl[Head(queue)].mode.dir
    THEN {OutputOf(Head(queue))} ELSE {}

\* C15 (as stated): when apply aborts on a failing entry, the output
\* produced for every entry processed before it remains present and
\* unchanged.
C15_AsStated ==
  [][Aborting =>
       \A p \in created : p \in DOMAIN out' /\ out'[p] = out[p]]_vars

\* C15 (amended): when apply aborts on a failing entry, everything the run
\* created before remains present, and unchanged except for the
\* destination path of the failing entry itself (which an earlier entry of
\* the same destination may have written): there is no rollback.
C15_NoRollback ==
  [][Aborting =>
       \A p \in created :
         /\ p \in DOMAIN out'
         /\ p \notin Processing => out'[p] = out[p]]_vars

\* the command returned an error and left the file of an earlier entry,
\* while a source file has no output
C15_Witness ==
  /\ pc = "done" /\ IsErr(walkErr)
  /\ \E p \in created : ~out[p].mode.dir /\ p # OutputOf(LastVisited)
  /\ \E q \in SourceFiles : OutputOf(q) \notin DOMAIN out

\* C16: the command checks the --data-file flag first: whenever the flag is
\* empty it returns the error that the flag is required, whether or not
\* the template path exists, before the template path is validated, the
\* data file is loaded or the output directory is created.
C16_FlagFirst ==
  (pc # "start" /\ ~dataFile.given) =>
    /\ pc = "done"
    /\ IsErr(err)
    /\ err.msgs[1] = "the --data-file flag is required for rendering templates."
    /\ data = NoData
    /\ created = {}
    /\ visited = <<>>

\* the flag was empty and the template path did not exist either, nor the
\* output directory, which the command did not create
C16_Witness ==
  /\ pc = "done" /\ ~dataFile.given
  /\ tmpl = NoTree
  /\ out = NoTree
  /\ err.msgs = << "the --data-file flag is required for rendering templates." >>

\* the message of the error that the flag is required
RequiredFlag == "the --data-file flag is required for rendering templates."

\* C17 (as stated): when --data-file is omitted and the template directory
\* holds tmpl.yaml, or else tmpl.json, the error is the required-flag
\* message followed by a hint that names that file, YAML before JSON.
C17_AsStated ==
  (pc = "done" /\ ~dataFile.given) =>
    /\ << NameTmplYAML >> \in DOMAIN tmpl =>
         err.msgs = << RequiredFlag, "Hint: Found a", "tmpl.yaml" >>
    /\ (<< NameTmplYAML >> \notin DOMAIN tmpl /\ << NameTmplJSON >> \in DOMAIN tmpl) =>
         err.msgs = << RequiredFlag, "Hint: Found a", "tmpl.json" >>

\* C18 (as stated): apply skips the example data files: tmpl.json and
\* tmpl.yaml of the template directory are never created in the output
\* directory.
C18_AsStated ==
  /\ << NameTmplJSON >> \notin created
  /\ << NameTmplYAML >> \notin created

MapPlaceholder ==
  /\ Len(segs) = 1
  /\ SegmentTexts[1] = << "{{", ".", "a", "}}" >>
  /\ "a" \in DOMAIN CallData
  /\ CallData["a"].kind = "map"

\* C21 (as stated): rendering a bare placeholder whose value is a nested
\* mapping fails with a render error, in a content template and in a path,
\* instead of substituting a textual form of the mapping.
C21_AsStated ==
  (pc = "done" /\ ret.op \in {"render", "path"} /\ MapPlaceholder) =>
    IsErr(ret.err)

(***************************************************************************)
(* Properties of the helpers (checked under SpecHelpers)                   *)
(***************************************************************************)
\* the string given to the helpers
HelperInput == dataFile.file.value["p"].str
\* a sequence of words: empty, or beginning with a rune of a word
WordSequence(s) == s = <<>> \/ ~isDelimiter(s[1])
\* strings.ToUpper, and the first rune lower-cased
UpperCased(s) == [k \in 1..Len(s) |-> toUpper(s[k])]
LowerFirst(s) == IF s = <<>> THEN s ELSE << toLower(s[1]) >> \o Tail(s)
\* the fields of a string between its slashes
RECURSIVE SlashFields(_, _)
SlashFields(s, field) ==
  IF s = <<>> THEN << field >>
  ELSE IF Head(s) = "/" THEN << field >> \o SlashFields(Tail(s), <<>>)
  ELSE SlashFields(Tail(s), Append(field, Head(s)))
\* some_variable_name/SOME_VARIABLE_NAME/SomeVariableName/someVariableName
ExampleResult ==
  << "v", "_", "v", "r", "_", "r", "v", "/", "V", "_", "V", "R", "_", "R", "V", "/",
     "V", "V", "r", "R", "v", "/", "v", "V", "r", "R", "v" >>
\* the call succeeded and its four results are related as stated
HelpersAsStated(e, result, s) ==
  LET with(f) ==
        /\ Len(f) = 4
        /\ f[2] = UpperCased(f[1])
        /\ WordSequence(s) => f[4] = LowerFirst(f[3])
  IN  /\ e = NoErr
      /\ with(SlashFields(result, <<>>))
      /\ s \in {CamelExample, SnakeExample} => result = ExampleResult

JSONExtensions == {".json", ".JSON"}
YAMLExtensions == {".yaml", ".yml", ".YAML"}

\* C23: LoadDataFile classifies its failures and returns no mapping on any
\* of them: a read error when the path is absent, `unsupported data file
\* format` when the extension is none of .json, .yaml, .yml (in either
\* case), `failed to parse JSON file` or `failed to parse YAML file` when
\* the content is malformed for the format of the extension; otherwise it
\* returns the decoded mapping with no error.
C23_FailuresClassified ==
  (pc = "done" /\ ret.op = "load") =>
    LET f == dataFile.file
        failed(msg) == ret.err.msgs = << msg >> /\ data = NoData
    IN  CASE ~f.exists -> failed("failed to read data file")
          [] f.exists /\ f.ext \notin JSONExtensions \cup YAMLExtensions ->
               failed("unsupported data file format")
          [] f.exists /\ f.ext \in JSONExtensions /\ f.syntax # "json" ->
               failed("failed to parse JSON file")
          [] f.exists /\ f.ext \in YAMLExtensions /\ f.syntax = "garbage" ->
               failed("failed to parse YAML file")
          [] OTHER -> ret.err = NoErr /\ data = f.value /\ data # NoData

\* a file without a known extension was refused although its content is a
\* JSON mapping
C23_Witness ==
  /\ pc = "done"
  /\ ret.op = "load"
  /\ dataFile.file.exists
  /\ dataFile.file.ext = ".txt"
  /\ dataFile.file.syntax = "json"
  /\ ret.err.msgs = << "unsupported data file format" >>
  /\ data = NoData

(***************************************************************************)
(* Properties of the whole run of apply (checked under Spec)               *)
(***************************************************************************)
\* the number of steps the run can still take, at most
RunMeasure ==
  CASE pc = "start" -> Cardinality(DOMAIN tmpl) + 2
    [] pc = "walk" -> Len(queue) + 1
    [] OTHER -> 0

\* the guard of some step of the run holds: of RunE, of Return, or of the
\* visit of the next entry
CanStep ==
  \/ pc = "start"
  \/ pc = "walk" /\ (queue = <<>> \/ ~WalkContinues(walkErr))
  \/ InWalk /\ Head(queue) \in DOMAIN tmpl

\* C24: apply over a finite template tree terminates (every step brings
\* the run nearer to its return and the run never stops before it has
\* returned), and when it returns success every entry of the tree (the
\* root, every directory, every file) has been visited exactly once, a
\* directory before every entry beneath it.
C24_TerminatesAllVisitedOnce ==
  /\ [][RunMeasure' < RunMeasure]_vars
  /\ [](pc # "done" => CanStep)
  /\ [](SuccessfulApply =>
          /\ Range(visited) = DOMAIN tmpl
          /\ \A i, j \in 1..Len(visited) : visited[i] = visited[j] => i = j
          /\ \A i, j \in 1..Len(visited) :
               (/\ Len(visited[i]) < Len(visited[j])
                /\ SubSeq(visited[j], 1, Len(visited[i])) = visited[i]) => i < j)

\* a run over a directory with a file in it and a file next to it
\* returned success after four visits
C24_Witness ==
  /\ SuccessfulApply
  /\ Len(visited) = 4
  /\ \E i, j \in 1..4 : /\ tmpl[visited[i]].mode.dir
                        /\ Len(visited[j]) = 2
                        /\ Parent(visited[j]) = visited[i]
                        /\ i < j

(***************************************************************************)
(* Completeness of the discovery of placeholders (checked under SpecCore)  *)
(***************************************************************************)
\* C25 (as stated): every field that appears anywhere in a template, the
\* condition of an {{if}} included, appears in the result of
\* IdentifyPlaceholders.
C25_AsStated ==
  (pc = "done" /\ ret.op = "identify" /\ ~IsErr(ret.err)) =>
    ActionFields \cup ConditionFields \subseteq Range(ret.keys)

(***************************************************************************)
(* What a run writes and what it leaves alone (checked under Spec)         *)
(***************************************************************************)
\* one of the three checks of the command fails: the flag is empty, the
\* template path is not found, or the data file cannot be loaded
ValidationFails ==
  \/ ~dataFile.given
  \/ tmpl = NoTree
  \/ IsErr(LoadDataFile(dataFile.file).err)

\* C27: when the command fails during validation it returns an error and
\* leaves the file system unchanged: the output directory is not created
\* and no output file is written; the run creates anything only after all
\* three checks have passed.
C27_ValidationWritesNothing ==
  /\ [][(pc = "start" /\ ValidationFails) =>
          /\ pc' = "done"
          /\ IsErr(err')
          /\ out' = out
          /\ created' = {}]_vars
  /\ [](created # {} => ~ValidationFails)

\* the data file was malformed: the command returned the parse error and
\* the output directory, absent before, is still absent
C27_Witness ==
  /\ pc = "done"
  /\ dataFile.given
  /\ tmpl # NoTree
  /\ err.msgs = << "failed to parse JSON file" >>
  /\ out = NoTree
  /\ created = {}

\* C26 (as stated): within one run each destination path is written by at
\* most one source entry: no step of the run changes an output file that
\* an earlier step of the same run wrote.
C26_AsStated ==
  [][\A p \in created :
       (p \in DOMAIN out /\ ~out[p].mode.dir) =>
         (p \in DOMAIN out' /\ out'[p] = out[p])]_vars

\* C26 (amended): within one run a step changes an output file that an
\* earlier step of the run wrote only when the entry it processes is the
\* template X.tmpl and the file is the copy of the plain file X of the same
\* directory; every other destination is written by one source entry.
C26_OnlyTemplateOverPlain ==
  [][\A p \in created :
       (/\ p \in DOMAIN out
        /\ ~out[p].mode.dir
        /\ (p \notin DOMAIN out' \/ out'[p] # out[p])) =>
         /\ InWalk
         /\ Marked(Head(queue))
         /\ Unmarked(Head(queue)) = p
         /\ p \in SourceFiles
         /\ ~Marked(p)
         /\ p \in Range(visited)]_vars

\* the plain file a was copied and the rendering of a.tmpl then replaced
\* it, while another file was copied to a path of its own
C26_Witness ==
  /\ \E i, j \in 1..Len(visited) :
        i < j /\ visited[i] = << NameA >> /\ visited[j] = << NameATmpl >>
  /\ ~IsErr(walkErr)
  /\ << NameA >> \in created
  /\ out[<< NameA >>].content = Rendered(<< NameATmpl >>)
  /\ out[<< NameA >>].content # tmpl[<< NameA >>].content
  /\ << NameTmplJSON >> \in created

(***************************************************************************)
(* Failures before the destination is opened (checked under SpecCoreOver)  *)
(***************************************************************************)
\* the errors that RenderTemplateFile and CopyFile return before they open
\* the destination
BeforeDestination ==
  { << "could not read template file" >>, << "could not parse template" >>,
    << "failed to open source file" >> }

\* C28: a failure before the destination is opened leaves the destination
\* untouched: when the source cannot be read or opened (RenderTemplateFile,
\* CopyFile) or the template does not parse (RenderTemplateFile), no
\* destination file is created and one that existed keeps its content and
\* its permission bits.
C28_DestinationUntouched ==
  [][(ret'.op \in {"render", "copy"} /\ ret'.err.msgs \in BeforeDestination) =>
       out' = out]_vars

\* a template that does not parse was rendered onto an existing file, which
\* is as it was
C28_Witness ==
  /\ pc = "done"
  /\ ret.op = "render"
  /\ ret.err.msgs = << "could not parse template" >>
  /\ out = OutWithDst
====
